---- MODULE Spec2Model ----
(***************************************************************************)
(* Cost accounting and pricing resolution of the VTE dashboard:            *)
(* services/cost_calculator.py (CostBreakdown, CostCalculator).            *)
(*                                                                         *)
(* Strings that the code lower-cases or searches (model names, price-table *)
(* keys) are sequences of one-character strings.  A Python dict is a       *)
(* sequence of <<key, value>> pairs in insertion order.  An Optional       *)
(* value is <<>> (None) or <<v>>.  CostBreakdown objects live in a heap    *)
(* indexed by object identity, since the ledger and the caller share them. *)
(*                                                                         *)
(* Money is counted in units of 0.000025 dollars, so the built-in rates    *)
(* 0.00015 and 0.0006 per 1K tokens are 6 and 24.  A float keeps MantBits  *)
(* significant bits and every float addition rounds to nearest, ties to    *)
(* even, as binary64 does with 53 bits.  The timestamp of a record         *)
(* (datetime.now) decides nothing in any operation and is left out.        *)
(*                                                                         *)
(* A value that yaml.safe_load leaves None is YamlNull.  A call that       *)
(* raises leaves the state as it was and records the callee and the        *)
(* exception in op; a constructor that raises leaves no instance.          *)
(*                                                                         *)
(* The Streamlit chat page (archive/chat.py, archive/components/           *)
(* cost_tracker.py, app.py) keeps its state in session_state; one action   *)
(* is one run of the script, with the rerun a button asks for.             *)
(***************************************************************************)
EXTENDS Integers, Sequences, FiniteSets, TLC

VARIABLES pricing, heap, session_costs, returned, op, calls, session_state

vars == <<pricing, heap, session_costs, returned, op, calls, session_state>>

(***************************************************************************)
(* Bounds of the model.                                                    *)
(***************************************************************************)
\* longest price table drawn for the resolver
MaxKeys == 2
\* longest session ledger
MaxLedger == 3
\* longest list of chat messages
MaxMessages == 4
\* most calculators created in one UI session
MaxCalculators == 2
\* significant bits of a float
MantBits == 7

(***************************************************************************)
(* Strings.                                                                *)
(***************************************************************************)
\* str.lower() on one character
LowerChar(c) ==
    CASE c = "A" -> "a" [] c = "B" -> "b" [] c = "C" -> "c" [] c = "D" -> "d"
      [] c = "E" -> "e" [] c = "F" -> "f" [] c = "G" -> "g" [] c = "H" -> "h"
      [] c = "I" -> "i" [] c = "J" -> "j" [] c = "K" -> "k" [] c = "L" -> "l"
      [] c = "M" -> "m" [] c = "N" -> "n" [] c = "O" -> "o" [] c = "P" -> "p"
      [] c = "Q" -> "q" [] c = "R" -> "r" [] c = "S" -> "s" [] c = "T" -> "t"
      [] c = "U" -> "u" [] c = "V" -> "v" [] c = "W" -> "w" [] c = "X" -> "x"
      [] c = "Y" -> "y" [] c = "Z" -> "z" [] OTHER -> c

\* str.lower()
Lower(s) == [i \in 1..Len(s) |-> LowerChar(s[i])]

\* s.startswith(p)
StartsWith(s, p) == Len(p) <= Len(s) /\ SubSeq(s, 1, Len(p)) = p

\* sub in s
Contains(s, sub) ==
    \E i \in 0..(Len(s) - Len(sub)) : SubSeq(s, i + 1, i + Len(sub)) = sub

\* s.replace(old, new), old non-empty: leftmost non-overlapping occurrences
RECURSIVE Replace(_, _, _)
Replace(s, old, new) ==
    IF s = <<>> THEN <<>>
    ELSE IF StartsWith(s, old)
         THEN new \o Replace(SubSeq(s, Len(old) + 1, Len(s)), old, new)
         ELSE <<s[1]>> \o Replace(Tail(s), old, new)

\* the literal "gpt-" of the normalisation step
GptDash == <<"g", "p", "t", "-">>

\* model names and price-table keys
N_gpt5mini == <<"g", "p", "t", "-", "5", "-", "m", "i", "n", "i">>
N_GPT5Mini == <<"G", "P", "T", "-", "5", "-", "M", "i", "n", "i">>
N_gpt5 == <<"g", "p", "t", "-", "5">>
N_GPT5 == <<"G", "P", "T", "-", "5">>
N_gpt52 == <<"g", "p", "t", "-", "5", ".", "2">>
N_gpt52preview ==
    <<"g", "p", "t", "-", "5", ".", "2", "-", "p", "r", "e", "v", "i", "e", "w">>
N_gptrealtime ==
    <<"g", "p", "t", "-", "r", "e", "a", "l", "t", "i", "m", "e">>
N_mini == <<"m", "i", "n", "i">>
N_unknown == <<"l", "l", "a", "m", "a">>

(***************************************************************************)
(* Dicts and Optionals.                                                    *)
(***************************************************************************)
None == <<>>

Some(v) == <<v>>

\* k in d
DictHas(d, k) == \E i \in 1..Len(d) : d[i][1] = k

\* position of key k in d
DictIndex(d, k) == CHOOSE i \in 1..Len(d) : d[i][1] = k

\* d.get(k, dflt)
DictGet(d, k, dflt) == IF DictHas(d, k) THEN d[DictIndex(d, k)][2] ELSE dflt

\* What yaml.safe_load gives for an empty document or an empty value: the
\* Python None, which is no mapping.  Its single item is no key-value pair,
\* which tells it from every dict.
YamlNull == << <<"null">> >>

\* v is a dict: v.get(...) and iteration over v do not raise
IsMapping(v) == v = <<>> \/ Len(v[1]) = 2

(***************************************************************************)
(* Floats.                                                                 *)
(***************************************************************************)
RECURSIVE Pow2(_)
Pow2(n) == IF n = 0 THEN 1 ELSE 2 * Pow2(n - 1)

RECURSIVE BitLen(_)
BitLen(n) == IF n = 0 THEN 0 ELSE 1 + BitLen(n \div 2)

\* the float nearest to the real n >= 0, ties to even
RoundMagnitude(n) ==
    IF BitLen(n) <= MantBits THEN n
    ELSE LET ulp == Pow2(BitLen(n) - MantBits)
             q == n \div ulp
             r == n % ulp
         IN  IF 2 * r > ulp \/ (2 * r = ulp /\ q % 2 = 1)
             THEN (q + 1) * ulp
             ELSE q * ulp

\* the float nearest to the real n: rounding is symmetric about zero
RoundFloat(n) == IF n < 0 THEN 0 - RoundMagnitude(0 - n) ELSE RoundMagnitude(n)

\* a + b on floats
FAdd(a, b) == RoundFloat(a + b)

\* sum(xs) of floats: left to right from 0
RECURSIVE FSum(_)
FSum(xs) ==
    IF xs = <<>> THEN 0 ELSE FAdd(FSum(SubSeq(xs, 1, Len(xs) - 1)), xs[Len(xs)])

\* sum(xs) of ints
RECURSIVE ISum(_)
ISum(xs) == IF xs = <<>> THEN 0 ELSE xs[1] + ISum(Tail(xs))

(***************************************************************************)
(* Price table: CostCalculator._load_pricing and get_model_rates.          *)
(***************************************************************************)
\* 0.00015 dollars per 1K input tokens
DefaultInputRate == 6
\* 0.0006 dollars per 1K output tokens
DefaultOutputRate == 24

\* {"input_per_1k_tokens": i, "output_per_1k_tokens": o}
Rates(i, o) == << <<"input_per_1k_tokens", i>>, <<"output_per_1k_tokens", o>> >>

\* the table substituted when the pricing file is not found
DefaultPricing ==
    << <<"models",
         << <<N_gpt5mini, Rates(6, 24)>>,
            <<N_gpt52, Rates(100, 400)>>,
            <<N_gptrealtime, Rates(2400, 9600)>> >> >>,
       <<"metadata",
         << <<"disclaimer", "Demo estimates - actual costs may vary">> >> >> >>

\* load_pricing with an empty table in place of the built-in one
load_pricing_Empty(resource) ==
    IF resource.found THEN resource.doc ELSE <<>>

\* _load_pricing on a resource that is absent, or present and parsed by
\* yaml.safe_load into the mapping resource.doc
load_pricing(resource) ==
    IF resource.found THEN resource.doc ELSE DefaultPricing

\* the content of a pricing file that yaml.safe_load rejects
InvalidYaml == << <<"invalid">> >>

\* the exception _load_pricing lets through, "" when it returns: only
\* FileNotFoundError is caught
load_pricing_error(resource) ==
    IF resource.found /\ resource.doc = InvalidYaml THEN "YAMLError" ELSE ""

\* model.lower().replace("gpt-", "gpt-")
ModelKey(model) == Replace(Lower(model), GptDash, GptDash)

\* KeyMatches with the containment turned round: the name contains the key
KeyMatches_NameContainsKey(key, model_key) ==
    Lower(key) = model_key \/ Contains(model_key, Lower(key))

\* the test of the matching loop for one key
KeyMatches(key, model_key) ==
    Lower(key) = model_key \/ Contains(Lower(key), model_key)

\* the rate pair returned for a matched entry
EntryRates(rates) ==
    <<DictGet(rates, "input_per_1k_tokens", 0),
      DictGet(rates, "output_per_1k_tokens", 0)>>

\* FallbackRates with 0.0 as the value of an absent rate
FallbackRates_Zero(models) ==
    LET default == DictGet(models, N_gpt5mini, <<>>)
    IN  <<DictGet(default, "input_per_1k_tokens", 0),
          DictGet(default, "output_per_1k_tokens", 0)>>

\* the rate pair returned when the loop matched no key
FallbackRates(models) ==
    LET default == DictGet(models, N_gpt5mini, <<>>)
    IN  <<DictGet(default, "input_per_1k_tokens", DefaultInputRate),
          DictGet(default, "output_per_1k_tokens", DefaultOutputRate)>>

\* CostCalculator.get_model_rates
get_model_rates(p, model) ==
    LET models == DictGet(p, "models", <<>>)
        model_key == ModelKey(model)
        hits == {i \in 1..Len(models) : KeyMatches(models[i][1], model_key)}
    IN  IF hits # {}
        THEN EntryRates(models[CHOOSE i \in hits : \A j \in hits : i <= j][2])
        ELSE FallbackRates(models)

\* the exception get_model_rates raises, "" when it returns a rate pair
get_model_rates_error(p, model) ==
    IF ~IsMapping(p) THEN "AttributeError"
    ELSE LET models == DictGet(p, "models", <<>>)
         IN  IF ~IsMapping(models) THEN "TypeError"
             ELSE LET model_key == ModelKey(model)
                      hits == {i \in 1..Len(models) :
                                  KeyMatches(models[i][1], model_key)}
                      rates == IF hits # {}
                               THEN models[CHOOSE i \in hits :
                                              \A j \in hits : i <= j][2]
                               ELSE DictGet(models, N_gpt5mini, <<>>)
                  IN  IF IsMapping(rates) THEN "" ELSE "AttributeError"

(***************************************************************************)
(* CostBreakdown and the operations of CostCalculator, as functions of the *)
(* price table p, the heap h and the ledger sc (a sequence of object ids). *)
(***************************************************************************)
\* TokenCost with the rate taken per token: tokens * rate
TokenCost_PerToken(tokens, rate) == RoundFloat(tokens * rate)

\* (tokens / 1000) * rate.  The quotient tokens / 1000 and the product are
\* exact for the token counts drawn below (multiples of 500) at even rates.
TokenCost(tokens, rate) == RoundFloat((tokens * rate) \div 1000)

\* the source of a record
Disclaimer(p) ==
    DictGet(DictGet(p, "metadata", <<>>), "disclaimer", "Demo Estimate")

\* Breakdown with the output tokens left out of total_tokens
Breakdown_InputOnly(p, model, input_tokens, output_tokens) ==
    LET rate == get_model_rates(p, model)
        input_cost == TokenCost(input_tokens, rate[1])
        output_cost == TokenCost(output_tokens, rate[2])
    IN  [model |-> model,
         input_tokens |-> input_tokens,
         output_tokens |-> output_tokens,
         total_tokens |-> input_tokens,
         input_cost |-> input_cost,
         output_cost |-> output_cost,
         total_estimated_cost |-> FAdd(input_cost, output_cost),
         actual_cost |-> None,
         source |-> Disclaimer(p)]

\* Breakdown that records the lower-cased name the resolver matched with
Breakdown_LowerModel(p, model, input_tokens, output_tokens) ==
    LET rate == get_model_rates(p, model)
        input_cost == TokenCost(input_tokens, rate[1])
        output_cost == TokenCost(output_tokens, rate[2])
    IN  [model |-> ModelKey(model),
         input_tokens |-> input_tokens,
         output_tokens |-> output_tokens,
         total_tokens |-> input_tokens + output_tokens,
         input_cost |-> input_cost,
         output_cost |-> output_cost,
         total_estimated_cost |-> FAdd(input_cost, output_cost),
         actual_cost |-> None,
         source |-> Disclaimer(p)]

\* Breakdown with the estimate filled in as the actual cost
Breakdown_ActualIsEstimate(p, model, input_tokens, output_tokens) ==
    LET rate == get_model_rates(p, model)
        input_cost == TokenCost(input_tokens, rate[1])
        output_cost == TokenCost(output_tokens, rate[2])
    IN  [model |-> model,
         input_tokens |-> input_tokens,
         output_tokens |-> output_tokens,
         total_tokens |-> input_tokens + output_tokens,
         input_cost |-> input_cost,
         output_cost |-> output_cost,
         total_estimated_cost |-> FAdd(input_cost, output_cost),
         actual_cost |-> Some(FAdd(input_cost, output_cost)),
         source |-> Disclaimer(p)]

\* the CostBreakdown that calculate_cost constructs
Breakdown(p, model, input_tokens, output_tokens) ==
    LET rate == get_model_rates(p, model)
        input_cost == TokenCost(input_tokens, rate[1])
        output_cost == TokenCost(output_tokens, rate[2])
    IN  [model |-> model,
         input_tokens |-> input_tokens,
         output_tokens |-> output_tokens,
         total_tokens |-> input_tokens + output_tokens,
         input_cost |-> input_cost,
         output_cost |-> output_cost,
         total_estimated_cost |-> FAdd(input_cost, output_cost),
         actual_cost |-> None,
         source |-> Disclaimer(p)]

\* the records of the ledger, in ledger order
Ledger(h, sc) == [i \in 1..Len(sc) |-> h[sc[i]]]

\* the values of the Optionals of xs that are not None, in order
RECURSIVE SelectPresent(_)
SelectPresent(xs) ==
    IF xs = <<>> THEN <<>>
    ELSE (IF xs[1] # None THEN <<xs[1][1]>> ELSE <<>>) \o SelectPresent(Tail(xs))

\* GroupStep with the model name lower-cased before grouping
GroupStep_Lower(by_model, cost) ==
    LET name == Lower(cost.model)
        d == IF DictHas(by_model, name) THEN by_model
             ELSE Append(by_model,
                         <<name,
                           [requests |-> 0, tokens |-> 0, estimated_cost |-> 0]>>)
        k == DictIndex(d, name)
    IN  [d EXCEPT ![k][2] =
            [requests |-> @.requests + 1,
             tokens |-> @.tokens + cost.total_tokens,
             estimated_cost |-> FAdd(@.estimated_cost, cost.total_estimated_cost)]]

\* one step of the grouping loop: by_model after the record cost
GroupStep(by_model, cost) ==
    LET d == IF DictHas(by_model, cost.model) THEN by_model
             ELSE Append(by_model,
                         <<cost.model,
                           [requests |-> 0, tokens |-> 0, estimated_cost |-> 0]>>)
        k == DictIndex(d, cost.model)
    IN  [d EXCEPT ![k][2] =
            [requests |-> @.requests + 1,
             tokens |-> @.tokens + cost.total_tokens,
             estimated_cost |-> FAdd(@.estimated_cost, cost.total_estimated_cost)]]

\* CostCalculator._costs_by_model
RECURSIVE costs_by_model(_)
costs_by_model(costs) ==
    IF costs = <<>> THEN <<>>
    ELSE GroupStep(costs_by_model(SubSeq(costs, 1, Len(costs) - 1)),
                   costs[Len(costs)])

\* total_actual if total_actual > 0 else None
ActualOrNone(total_actual) ==
    IF total_actual > 0 THEN Some(total_actual) ELSE None

\* get_session_total with total_tokens taken from the input tokens alone
get_session_total_InputOnly(h, sc) ==
    LET costs == Ledger(h, sc)
        total_input == ISum([i \in 1..Len(costs) |-> costs[i].input_tokens])
        total_output == ISum([i \in 1..Len(costs) |-> costs[i].output_tokens])
        total_estimated ==
            FSum([i \in 1..Len(costs) |-> costs[i].total_estimated_cost])
        total_actual ==
            FSum(SelectPresent([i \in 1..Len(costs) |-> costs[i].actual_cost]))
    IN  [request_count |-> Len(sc),
         total_input_tokens |-> total_input,
         total_output_tokens |-> total_output,
         total_tokens |-> total_input,
         total_estimated_cost |-> total_estimated,
         total_actual_cost |-> ActualOrNone(total_actual),
         costs_by_model |-> costs_by_model(costs)]

\* CostCalculator.get_session_total
get_session_total(h, sc) ==
    LET costs == Ledger(h, sc)
        total_input == ISum([i \in 1..Len(costs) |-> costs[i].input_tokens])
        total_output == ISum([i \in 1..Len(costs) |-> costs[i].output_tokens])
        total_estimated ==
            FSum([i \in 1..Len(costs) |-> costs[i].total_estimated_cost])
        total_actual ==
            FSum(SelectPresent([i \in 1..Len(costs) |-> costs[i].actual_cost]))
    IN  [request_count |-> Len(sc),
         total_input_tokens |-> total_input,
         total_output_tokens |-> total_output,
         total_tokens |-> total_input + total_output,
         total_estimated_cost |-> total_estimated,
         total_actual_cost |-> ActualOrNone(total_actual),
         costs_by_model |-> costs_by_model(costs)]

\* one decimal digit as a character
DigitChar(d) ==
    CASE d = 0 -> "0" [] d = 1 -> "1" [] d = 2 -> "2" [] d = 3 -> "3"
      [] d = 4 -> "4" [] d = 5 -> "5" [] d = 6 -> "6" [] d = 7 -> "7"
      [] d = 8 -> "8" [] d = 9 -> "9"

\* the decimal digits of n, zero-padded to at least width of them
RECURSIVE Digits(_, _)
Digits(n, width) ==
    IF n < 10 /\ width <= 1
    THEN <<DigitChar(n)>>
    ELSE Append(Digits(n \div 10, width - 1), DigitChar(n % 10))

\* f"${x:.6f}": a dollar sign, the whole dollars, a point and six decimals.
\* One unit is 25 millionths of a dollar, so no digit is rounded away.
Format6(x) ==
    LET micro == IF x < 0 THEN 0 - x * 25 ELSE x * 25
    IN  <<"$">> \o (IF x < 0 THEN <<"-">> ELSE <<>>)
                \o Digits(micro \div 1000000, 1) \o <<".">>
                \o Digits(micro % 1000000, 6)

\* CostBreakdown.to_dict
to_dict(c) ==
    [model |-> c.model,
     input_tokens |-> c.input_tokens,
     output_tokens |-> c.output_tokens,
     total_tokens |-> c.total_tokens,
     input_cost |-> Format6(c.input_cost),
     output_cost |-> Format6(c.output_cost),
     total_estimated_cost |-> Format6(c.total_estimated_cost),
     actual_cost |-> IF c.actual_cost # None /\ c.actual_cost[1] # 0
                     THEN Format6(c.actual_cost[1])
                     ELSE <<"P", "e", "n", "d", "i", "n", "g">>,
     source |-> c.source]

\* CostCalculator.get_cost_history
get_cost_history(h, sc) == [i \in 1..Len(sc) |-> to_dict(h[sc[i]])]

(***************************************************************************)
(* The calculator as a state machine.  heap holds the CostBreakdown        *)
(* objects that the ledger or the caller still refer to; returned is the   *)
(* reference the caller got from its last calculate_cost; op is the last   *)
(* call with its arguments and result; calls lists the arguments of the    *)
(* calculate_cost calls since construction or the last clear_session.      *)
(***************************************************************************)
ObjIds == 1..(MaxLedger + 2)

EmptyHeap == [x \in {} |-> None]

\* the ids of a sequence of references
Refs(sc) == {sc[i] : i \in 1..Len(sc)}

\* an id that names no live object
FreshId(h) == CHOOSE x \in ObjIds \ DOMAIN h : \A y \in ObjIds \ DOMAIN h : x <= y

\* the heap without the objects nothing refers to any more
Collect(h, sc, ref) == [x \in (DOMAIN h) \cap (Refs(sc) \cup Refs(ref)) |-> h[x]]

\* the heap with object id set to record b
Store(h, id, b) == [x \in DOMAIN h \cup {id} |-> IF x = id THEN b ELSE h[x]]

\* calculate_cost on a ledger that keeps the two newest records only
calculate_cost_Window(p, h, sc, model, input_tokens, output_tokens) ==
    LET breakdown == FreshId(h)
        appended == Append(sc, breakdown)
    IN  [heap |-> Store(h, breakdown,
                        Breakdown(p, model, input_tokens, output_tokens)),
         session_costs |-> IF Len(appended) > 2 THEN Tail(appended)
                           ELSE appended,
         ret |-> breakdown]

\* calculate_cost that skips a record equal to the last one of the ledger
calculate_cost_Dedup(p, h, sc, model, input_tokens, output_tokens) ==
    LET breakdown == FreshId(h)
        b == Breakdown(p, model, input_tokens, output_tokens)
    IN  IF sc # <<>> /\ h[sc[Len(sc)]] = b
        THEN [heap |-> h, session_costs |-> sc, ret |-> sc[Len(sc)]]
        ELSE [heap |-> Store(h, breakdown, b),
              session_costs |-> Append(sc, breakdown),
              ret |-> breakdown]

\* calculate_cost that appends one object and returns a copy of it
calculate_cost_Copy(p, h, sc, model, input_tokens, output_tokens) ==
    LET breakdown == FreshId(h)
        b == Breakdown(p, model, input_tokens, output_tokens)
        copy == FreshId(Store(h, breakdown, b))
    IN  [heap |-> Store(Store(h, breakdown, b), copy, b),
         session_costs |-> Append(sc, breakdown),
         ret |-> copy]

\* CostCalculator.calculate_cost: the heap and the ledger after the call, and
\* the reference it returns.  The object appended is the object returned.
calculate_cost(p, h, sc, model, input_tokens, output_tokens) ==
    LET breakdown == FreshId(h)
    IN  [heap |-> Store(h, breakdown,
                        Breakdown(p, model, input_tokens, output_tokens)),
         session_costs |-> Append(sc, breakdown),
         ret |-> breakdown]

\* the exception calculate_cost raises, "" when it returns: the rates are
\* resolved first and the source is read before the record is appended
calculate_cost_error(p, model) ==
    IF get_model_rates_error(p, model) # ""
    THEN get_model_rates_error(p, model)
    ELSE IF IsMapping(DictGet(p, "metadata", <<>>)) THEN "" ELSE "AttributeError"

\* clear_session that keeps the newest record
clear_session_KeepLast(sc) == IF sc = <<>> THEN <<>> ELSE <<sc[Len(sc)]>>

\* clear_session that drops the oldest record only
clear_session_DropOldest(sc) == IF sc = <<>> THEN <<>> ELSE Tail(sc)

\* CostCalculator.clear_session: the ledger after the call
clear_session(sc) == <<>>

\* CostCalculator.__init__ on a pricing resource
\* st.session_state of a calculator used outside the Streamlit app: no chat
\* and no calculator kept in it
NoSessionState ==
    [keys |-> {},
     messages |-> <<>>,
     conversation_history |-> <<>>,
     last_cost_breakdown |-> None,
     cost_calculator |-> 0]

\* A call that raised: op names the callee and the exception.
Raised(callee, exception) ==
    [name |-> "raise", arg |-> <<callee>>, ret |-> exception]

\* An instance exists: __init__ returned.  When it raised, no attribute was
\* assigned and nothing can be called.
Constructed == ~(op.name = "raise" /\ op.arg = <<"__init__">>)

InitWith(resources) ==
    /\ \E r \in resources :
          IF load_pricing_error(r) # ""
          THEN /\ pricing = YamlNull
               /\ op = Raised("__init__", load_pricing_error(r))
          ELSE /\ pricing = load_pricing(r)
               /\ op = [name |-> "init", arg |-> <<r.found>>, ret |-> None]
    /\ heap = EmptyHeap
    /\ session_costs = <<>>
    /\ returned = None
    /\ calls = <<>>
    /\ session_state = NoSessionState

CalculateCost(model, input_tokens, output_tokens) ==
    /\ Constructed
    /\ Len(session_costs) < MaxLedger
    /\ IF calculate_cost_error(pricing, model) # ""
       THEN /\ op' = Raised("calculate_cost", calculate_cost_error(pricing, model))
            /\ UNCHANGED <<heap, session_costs, returned, calls>>
       ELSE /\ LET r == calculate_cost(pricing, heap, session_costs,
                                       model, input_tokens, output_tokens)
               IN  /\ heap' = Collect(r.heap, r.session_costs, Some(r.ret))
                   /\ session_costs' = r.session_costs
                   /\ returned' = Some(r.ret)
                   /\ op' = [name |-> "calculate_cost",
                             arg |-> <<model, input_tokens, output_tokens>>,
                             ret |-> Some(r.ret)]
            /\ calls' = Append(calls, <<model, input_tokens, output_tokens>>)
    /\ UNCHANGED <<pricing, session_state>>

ClearSession ==
    /\ Constructed
    /\ session_costs' = clear_session(session_costs)
    /\ heap' = Collect(heap, session_costs', returned)
    /\ op' = [name |-> "clear_session", arg |-> None, ret |-> None]
    /\ calls' = <<>>
    /\ UNCHANGED <<pricing, returned, session_state>>

GetSessionTotal ==
    /\ Constructed
    /\ op' = [name |-> "get_session_total", arg |-> None,
              ret |-> get_session_total(heap, session_costs)]
    /\ UNCHANGED <<pricing, heap, session_costs, returned, calls, session_state>>

\* GetCostHistory that hands the records over and empties the ledger
GetCostHistory_Drain ==
    /\ Constructed
    /\ op' = [name |-> "get_cost_history", arg |-> None,
              ret |-> get_cost_history(heap, session_costs)]
    /\ session_costs' = <<>>
    /\ heap' = Collect(heap, <<>>, returned)
    /\ UNCHANGED <<pricing, returned, calls, session_state>>

GetCostHistory ==
    /\ Constructed
    /\ op' = [name |-> "get_cost_history", arg |-> None,
              ret |-> get_cost_history(heap, session_costs)]
    /\ UNCHANGED <<pricing, heap, session_costs, returned, calls, session_state>>

\* GetModelRates that stores the rates it resolved under the name asked for
GetModelRates_Memo(model) ==
    /\ Constructed
    /\ op' = [name |-> "get_model_rates", arg |-> model,
              ret |-> get_model_rates(pricing, model)]
    /\ pricing' =
           IF DictHas(pricing, "models")
              /\ ~DictHas(DictGet(pricing, "models", <<>>), model)
           THEN [pricing EXCEPT ![DictIndex(pricing, "models")][2] =
                    Append(@, <<model,
                                Rates(get_model_rates(pricing, model)[1],
                                      get_model_rates(pricing, model)[2])>>)]
           ELSE pricing
    /\ UNCHANGED <<heap, session_costs, returned, calls, session_state>>

GetModelRates(model) ==
    /\ Constructed
    /\ op' = IF get_model_rates_error(pricing, model) # ""
             THEN Raised("get_model_rates", get_model_rates_error(pricing, model))
             ELSE [name |-> "get_model_rates", arg |-> model,
                   ret |-> get_model_rates(pricing, model)]
    /\ UNCHANGED <<pricing, heap, session_costs, returned, calls, session_state>>

\* The caller assigns an attribute of the CostBreakdown it was handed
\* (breakdown.actual_cost = value, and so on): the dataclass is not frozen.
SetAttr(field, value) ==
    /\ Constructed
    /\ returned # None
    /\ heap' = [heap EXCEPT ![returned[1]] = [@ EXCEPT ![field] = value]]
    /\ op' = [name |-> "setattr", arg |-> <<field, value>>, ret |-> None]
    /\ UNCHANGED <<pricing, session_costs, returned, calls, session_state>>

(***************************************************************************)
(* Inputs.                                                                 *)
(***************************************************************************)
\* input and output token counts of a request
InputTokenCounts == {0, 1000}

OutputTokenCounts == {500}

\* model names of priced requests
CallModels == {N_gpt5mini, N_GPT5Mini, N_gpt52}

\* a parsed pricing document
Doc(models, metadata) == << <<"models", models>> >> \o metadata

NoMetadata == <<>>

\* a pricing file without the default model and without a disclaimer
DocNoDefault == Doc(<< <<N_gpt52, Rates(100, 400)>> >>, NoMetadata)

\* the pricing resources of the calculators whose sessions are explored
SessionResources ==
    {[found |-> FALSE, doc |-> <<>>],
     [found |-> TRUE, doc |-> DocNoDefault]}

Init == InitWith(SessionResources)

Next ==
    \/ \E m \in CallModels, i \in InputTokenCounts, o \in OutputTokenCounts :
          CalculateCost(m, i, o)
    \/ ClearSession
    \/ GetSessionTotal
    \/ GetCostHistory
    \/ \E m \in CallModels : GetModelRates(m)

Spec == Init /\ [][Next]_vars

(***************************************************************************)
(* The resolver alone, over every small price table.                       *)
(***************************************************************************)
\* entries a pricing file may hold; the gpt-5-mini entries carry rates
\* other than the built-in ones, and one of them omits its input rate
RateEntries ==
    {<<N_gpt5mini, Rates(10, 40)>>,
     <<N_gpt5mini, << <<"output_per_1k_tokens", 40>> >> >>,
     <<N_GPT5Mini, Rates(8, 32)>>,
     <<N_gpt5, Rates(50, 200)>>,
     <<N_gpt52, Rates(100, 400)>>}

\* the models sections of at most MaxKeys entries, keys distinct
ModelTables ==
    {t \in UNION {[1..n -> RateEntries] : n \in 0..MaxKeys} :
        \A i, j \in 1..Len(t) : i # j => t[i][1] # t[j][1]}

\* absent file, file without a models section, files with one
RateResources ==
    {[found |-> FALSE, doc |-> <<>>], [found |-> TRUE, doc |-> <<>>]}
        \cup {[found |-> TRUE, doc |-> Doc(t, NoMetadata)] : t \in ModelTables}

\* names asked of the resolver
RateModels ==
    {N_gpt5mini, N_GPT5Mini, N_gpt5, N_GPT5, N_gpt52, N_gpt52preview,
     N_mini, N_unknown}

InitRates == InitWith(RateResources)

NextRates == \E m \in RateModels : GetModelRates(m)

SpecRates == InitRates /\ [][NextRates]_vars

\* the models section of the loaded table
Models == DictGet(pricing, "models", <<>>)

\* positions of the keys equal to the name, case-insensitively
ExactHits(name) == {i \in 1..Len(Models) : Lower(Models[i][1]) = Lower(name)}

\* positions of the keys the lower-cased name contains
NameContainsKey(name) ==
    {i \in 1..Len(Models) : Contains(Lower(name), Lower(Models[i][1]))}

\* positions of the keys that contain the lower-cased name
KeyContainsName(name) ==
    {i \in 1..Len(Models) : Contains(Lower(Models[i][1]), Lower(name))}

\* the least element of a non-empty set of positions
First(S) == CHOOSE i \in S : \A j \in S : i <= j

\* the rates stored under position i, an absent field read as 0.0
StoredRates(i) ==
    <<DictGet(Models[i][2], "input_per_1k_tokens", 0),
      DictGet(Models[i][2], "output_per_1k_tokens", 0)>>

\* C2: a name equal to a key case-insensitively gets the rates of such a key,
\* whatever keys precede it in the table.
C2_ExactMatchFirst ==
    (op.name = "get_model_rates" /\ ExactHits(op.arg) # {})
        => op.ret \in {StoredRates(i) : i \in ExactHits(op.arg)}

\* C3: a name with no exact match that contains a key gets the rates of the
\* first key it contains.
C3_NameContainsKey ==
    (/\ op.name = "get_model_rates"
     /\ ExactHits(op.arg) = {}
     /\ NameContainsKey(op.arg) # {})
        => op.ret = StoredRates(First(NameContainsKey(op.arg)))

\* a name that matches no key, exactly or by containment either way
NoMatch(name) ==
    /\ ExactHits(name) = {}
    /\ NameContainsKey(name) = {}
    /\ KeyContainsName(name) = {}

\* C4 as stated: no match and no "gpt-5-mini" key gives (0.0, 0.0).
C4_ZeroRates ==
    (/\ op.name = "get_model_rates"
     /\ NoMatch(op.arg)
     /\ ~DictHas(Models, N_gpt5mini))
        => op.ret = <<0, 0>>

\* C4 amended: a name that no key equals or contains, asked of a table
\* without a "gpt-5-mini" key, gets the built-in rates 0.00015 and 0.0006.
C4_BuiltinRates ==
    (/\ op.name = "get_model_rates"
     /\ ExactHits(op.arg) = {}
     /\ KeyContainsName(op.arg) = {}
     /\ ~DictHas(Models, N_gpt5mini))
        => op.ret = <<DefaultInputRate, DefaultOutputRate>>

C4_Witness ==
    /\ op.name = "get_model_rates"
    /\ NoMatch(op.arg)
    /\ Len(Models) = 2
    /\ ~DictHas(Models, N_gpt5mini)
    /\ op.ret = <<6, 24>>

\* C5: a name that matches no key gets, from a table with a "gpt-5-mini"
\* key, the rates an exact match on that entry yields.
C5_DefaultEntryRates ==
    (/\ op.name = "get_model_rates"
     /\ NoMatch(op.arg)
     /\ DictHas(Models, N_gpt5mini))
        => op.ret = StoredRates(DictIndex(Models, N_gpt5mini))

(***************************************************************************)
(* The session ledger under the calculator's own operations (Spec).        *)
(***************************************************************************)
\* the records of the session ledger
Records == Ledger(heap, session_costs)

\* C1: every ledger record has total_tokens = input_tokens + output_tokens
\* and total_estimated_cost = input_cost + output_cost.
C1_RecordTotals ==
    \A i \in 1..Len(Records) :
        /\ Records[i].total_tokens =
               Records[i].input_tokens + Records[i].output_tokens
        /\ Records[i].total_estimated_cost =
               FAdd(Records[i].input_cost, Records[i].output_cost)

C1_Witness ==
    /\ Len(Records) = 2
    /\ op.name = "get_cost_history"
    /\ Records[1].input_cost > 0
    /\ Records[1].output_cost > 0
    /\ Records[2].total_tokens = 1500

\* C6: a calculate_cost call leaves the price table and the earlier records
\* as they were, in their order, and adds one record, built from its
\* arguments, at the end of the ledger, also when the record equals the
\* one before it.
C6_AppendsOne ==
    [][op'.name = "calculate_cost" =>
          /\ pricing' = pricing
          /\ Len(session_costs') = Len(session_costs) + 1
          /\ SubSeq(session_costs', 1, Len(session_costs)) = session_costs
          /\ session_costs'[Len(session_costs')] \notin Refs(session_costs)
          /\ \A i \in 1..Len(session_costs) :
                 heap'[session_costs[i]] = heap[session_costs[i]]
          /\ LET new == heap'[session_costs'[Len(session_costs')]]
             IN  /\ new.model = op'.arg[1]
                 /\ new.input_tokens = op'.arg[2]
                 /\ new.output_tokens = op'.arg[3]]_vars

C6_Witness ==
    /\ op.name = "calculate_cost"
    /\ Len(session_costs) = 2
    /\ session_costs[1] # session_costs[2]
    /\ Records[1] = Records[2]
    /\ Records[1].total_estimated_cost > 0

\* the i-th components of a sequence of tuples
Column(xs, i) == [k \in 1..Len(xs) |-> xs[k][i]]

\* C7: get_session_total reports the number of calculate_cost calls since
\* construction or the last clear_session, the sums of their token counts,
\* and the sum of the records' estimated costs.
C7_SessionTotals ==
    op.name = "get_session_total" =>
        /\ op.ret.request_count = Len(calls)
        /\ op.ret.request_count = Len(session_costs)
        /\ op.ret.total_input_tokens = ISum(Column(calls, 2))
        /\ op.ret.total_output_tokens = ISum(Column(calls, 3))
        /\ op.ret.total_tokens =
               op.ret.total_input_tokens + op.ret.total_output_tokens
        /\ op.ret.total_estimated_cost =
               FSum([i \in 1..Len(Records) |-> Records[i].total_estimated_cost])

C7_Witness ==
    /\ op.name = "get_session_total"
    /\ Len(calls) = 2
    /\ returned # None
    /\ op.ret.total_input_tokens = 1000
    /\ op.ret.total_output_tokens = 1000
    /\ op.ret.total_estimated_cost > 0

\* the summary of an empty ledger
EmptySummary ==
    [request_count |-> 0,
     total_input_tokens |-> 0,
     total_output_tokens |-> 0,
     total_tokens |-> 0,
     total_estimated_cost |-> 0,
     total_actual_cost |-> None,
     costs_by_model |-> <<>>]

\* C8: right after clear_session the summary is that of an empty ledger and
\* the history is empty, and so are they when read before any further
\* calculate_cost.
C8_ClearedSession ==
    /\ op.name = "clear_session" =>
           /\ get_session_total(heap, session_costs) = EmptySummary
           /\ get_cost_history(heap, session_costs) = <<>>
    /\ (op.name = "get_session_total" /\ calls = <<>>) => op.ret = EmptySummary
    /\ (op.name = "get_cost_history" /\ calls = <<>>) => op.ret = <<>>

\* a session cleared while the caller still holds a record of it
C8_Witness ==
    /\ op.name = "clear_session"
    /\ returned # None
    /\ heap[returned[1]].total_estimated_cost > 0

\* the ledger records whose model is the string m, in ledger order
OfModel(m) == LET Same(c) == c.model = m IN SelectSeq(Records, Same)

\* C10: costs_by_model has one key per distinct model string of the ledger,
\* compared case-sensitively, and under each key the count, the token sum
\* and the estimated-cost sum of the records with exactly that string.
C10_GroupsByLiteralModel ==
    op.name = "get_session_total" =>
        LET by == op.ret.costs_by_model
        IN  /\ {by[k][1] : k \in 1..Len(by)} =
                   {Records[i].model : i \in 1..Len(Records)}
            /\ \A j, k \in 1..Len(by) : j # k => by[j][1] # by[k][1]
            /\ \A k \in 1..Len(by) :
                   LET rs == OfModel(by[k][1])
                   IN  /\ by[k][2].requests = Len(rs)
                       /\ by[k][2].tokens =
                              ISum([i \in 1..Len(rs) |-> rs[i].total_tokens])
                       /\ by[k][2].estimated_cost =
                              FSum([i \in 1..Len(rs) |->
                                        rs[i].total_estimated_cost])

\* two names that differ only in case and resolve to one table entry
C10_Witness ==
    /\ op.name = "get_session_total"
    /\ Len(Records) = 2
    /\ Records[1].model = N_gpt5mini
    /\ Records[2].model = N_GPT5Mini
    /\ Records[1].total_estimated_cost > 0
    /\ Len(op.ret.costs_by_model) = 2
    /\ get_model_rates(pricing, N_gpt5mini) = get_model_rates(pricing, N_GPT5Mini)

(***************************************************************************)
(* The calculator and a caller that writes to the record it was handed     *)
(* (SpecAlias).                                                            *)
(***************************************************************************)
\* actual costs a billing reconciliation may report, in money units
ActualCosts == {0, 8}

\* an input token count no request of the session has
OtherTokenCounts == {2000}

InitAlias == InitWith({[found |-> FALSE, doc |-> <<>>]})

NextAlias ==
    \/ \E o \in OutputTokenCounts : CalculateCost(N_gpt5mini, 1000, o)
    \/ ClearSession
    \/ GetSessionTotal
    \/ GetCostHistory
    \/ \E v \in ActualCosts : SetAttr("actual_cost", Some(v))
    \/ SetAttr("model", N_unknown)
    \/ \E n \in OtherTokenCounts : SetAttr("input_tokens", n)

SpecAlias == InitAlias /\ [][NextAlias]_vars

CustomMetadata == << <<"metadata", << <<"disclaimer", "Custom">> >> >> >>

LoadResources ==
    {[found |-> FALSE, doc |-> <<>>],
     \* a file that is not YAML
     [found |-> TRUE, doc |-> InvalidYaml],
     \* an empty file
     [found |-> TRUE, doc |-> YamlNull],
     \* a file with a metadata section only
     [found |-> TRUE, doc |-> CustomMetadata],
     \* "models:" with nothing under it
     [found |-> TRUE, doc |-> Doc(YamlNull, NoMetadata)],
     \* "gpt-5.2:" with nothing under it
     [found |-> TRUE, doc |-> Doc(<< <<N_gpt52, YamlNull>> >>, NoMetadata)],
     \* "metadata:" with nothing under it
     [found |-> TRUE, doc |-> Doc(<< <<N_gpt52, Rates(100, 400)>> >>,
                                  << <<"metadata", YamlNull>> >>)],
     [found |-> TRUE, doc |-> DocNoDefault]}

\* model names of the requests of these calculators
LoadModels == {N_gpt5mini, N_gpt52}

InitLoad == InitWith(LoadResources)

NextLoad ==
    \/ \E m \in LoadModels : CalculateCost(m, 1000, 500)
    \/ ClearSession
    \/ GetSessionTotal
    \/ \E m \in LoadModels : GetModelRates(m)

SpecLoad == InitLoad /\ [][NextLoad]_vars

\* C11 as stated: on every constructed calculator get_model_rates raises
\* nothing and returns a pair of rates each >= 0.
C11_RatesNeverRaise ==
    /\ ~(op.name = "raise" /\ op.arg = <<"get_model_rates">>)
    /\ op.name = "get_model_rates" => (op.ret[1] >= 0 /\ op.ret[2] >= 0)

\* C12 as stated: whenever an instance exists its pricing is a well-formed
\* table, a mapping with a models section.
C12_InstanceHasTable ==
    Constructed => (IsMapping(pricing) /\ DictHas(pricing, "models"))

\* C13: a calculator built while the pricing resource is not found holds
\* exactly the built-in table: the three models with their rates and the
\* fixed disclaimer, and nothing else.
C13_BuiltinTable ==
    (op.name = "init" /\ op.arg = <<FALSE>>) =>
        LET models == DictGet(pricing, "models", <<>>)
        IN  /\ Len(pricing) = 2
            /\ Len(models) = 3
            /\ DictGet(models, N_gpt5mini, <<>>) = Rates(6, 24)
            /\ DictGet(models, N_gpt52, <<>>) = Rates(100, 400)
            /\ DictGet(models, N_gptrealtime, <<>>) = Rates(2400, 9600)
            /\ DictGet(DictGet(pricing, "metadata", <<>>), "disclaimer", "")
                   = "Demo estimates - actual costs may vary"

C13_Witness ==
    /\ op.name = "init"
    /\ op.arg = <<FALSE>>
    /\ session_costs = <<>>
    /\ get_model_rates(pricing, N_gptrealtime) = <<2400, 9600>>

(***************************************************************************)
(* Reads (Spec).                                                           *)
(***************************************************************************)
\* the records the calculate_cost calls since the last clear_session made
CallRecords ==
    [k \in 1..Len(calls) |->
        Breakdown(pricing, calls[k][1], calls[k][2], calls[k][3])]

\* the summary of the records of these calls
CallSummary == get_session_total(CallRecords, [k \in 1..Len(calls) |-> k])

Reads == {"get_session_total", "get_cost_history", "get_model_rates"}

\* C14: get_session_total, get_cost_history and get_model_rates leave the
\* ledger as it was, and the summary get_session_total returns depends only
\* on the calculate_cost calls since the last clear_session, so two calls
\* with no calculate_cost or clear_session between them return the same.
C14_ReadsArePure ==
    /\ [][op'.name \in Reads =>
              (session_costs' = session_costs /\ heap' = heap)]_vars
    /\ [](op.name = "get_session_total" => op.ret = CallSummary)

C14_Witness ==
    /\ op.name = "get_session_total"
    /\ op.ret.request_count = 2
    /\ op.ret.total_estimated_cost > 0
    /\ Len(calls) = 2

(***************************************************************************)
(* Cost arithmetic (Spec).                                                 *)
(***************************************************************************)
\* C15: the record calculate_cost returns has input_cost = (input_tokens /
\* 1000) * input_rate and output_cost = (output_tokens / 1000) * output_rate
\* for the rates get_model_rates gives for the model; at the rates 0.00015
\* and 0.0006 (6 and 24 units), 1000 input and 500 output tokens cost
\* 0.00015, 0.0003 and in total 0.00045 (6, 12 and 18 units).
C15_CostFormula ==
    op.name = "calculate_cost" =>
        LET b == heap[op.ret[1]]
            rate == get_model_rates(pricing, op.arg[1])
        IN  /\ b.input_cost * 1000 = op.arg[2] * rate[1]
            /\ b.output_cost * 1000 = op.arg[3] * rate[2]
            /\ (rate = <<6, 24>> /\ op.arg[2] = 1000 /\ op.arg[3] = 500) =>
                   /\ b.input_cost = 6
                   /\ b.output_cost = 12
                   /\ b.total_estimated_cost = 18

C15_Witness ==
    /\ op.name = "calculate_cost"
    /\ op.arg = <<N_gpt5mini, 1000, 500>>
    /\ get_model_rates(pricing, N_gpt5mini) = <<6, 24>>
    /\ heap[op.ret[1]].total_estimated_cost = 18

(***************************************************************************)
(* The calculator and a billing reconciliation that fills in actual_cost   *)
(* of the records handed out (SpecBilling).                                *)
(***************************************************************************)
\* amounts a reconciliation may report, in money units: a credit, a free
\* request and a charge
BilledCosts == {0 - 8, 0, 8}

InitBilling == InitWith({[found |-> FALSE, doc |-> <<>>]})

NextBilling ==
    \/ \E i \in InputTokenCounts : CalculateCost(N_gpt5mini, i, 500)
    \/ ClearSession
    \/ GetSessionTotal
    \/ GetCostHistory
    \/ \E v \in BilledCosts : SetAttr("actual_cost", Some(v))

SpecBilling == InitBilling /\ [][NextBilling]_vars

\* the actual_cost values present in the ledger, in order
PresentActualCosts ==
    SelectPresent([k \in 1..Len(Records) |-> Records[k].actual_cost])

\* C16 as stated: once actual_cost values are populated, total_actual_cost
\* is None exactly when their sum is zero, and any non-zero sum is reported
\* as that sum.
C16_NoneIffZeroSum ==
    (op.name = "get_session_total" /\ PresentActualCosts # <<>>) =>
        /\ op.ret.total_actual_cost = None <=> FSum(PresentActualCosts) = 0
        /\ FSum(PresentActualCosts) # 0 =>
               op.ret.total_actual_cost = Some(FSum(PresentActualCosts))

\* the text of an absent actual_cost
Pending == <<"P", "e", "n", "d", "i", "n", "g">>

\* C17 as stated: get_cost_history has one entry per ledger record, in
\* append order, and an entry shows "Pending" exactly when the record's
\* actual_cost is absent; a present 0.0 shows as an amount.
C17_PendingIffAbsent ==
    op.name = "get_cost_history" =>
        /\ Len(op.ret) = Len(Records)
        /\ \A k \in 1..Len(Records) :
               /\ op.ret[k].model = Records[k].model
               /\ op.ret[k].input_tokens = Records[k].input_tokens
               /\ op.ret[k].actual_cost = Pending <=>
                      Records[k].actual_cost = None

(***************************************************************************)
(* actual_cost and the price table under the calculator's operations       *)
(* (Spec).                                                                 *)
(***************************************************************************)
\* C18: no operation of the calculator sets actual_cost: under these
\* operations alone every record, in the ledger or handed out, has it
\* absent, every summary has total_actual_cost None and every history entry
\* shows "Pending".
C18_ActualCostNeverSet ==
    /\ \A x \in DOMAIN heap : heap[x].actual_cost = None
    /\ op.name = "get_session_total" => op.ret.total_actual_cost = None
    /\ op.name = "get_cost_history" =>
           \A k \in 1..Len(op.ret) : op.ret[k].actual_cost = Pending

C18_Witness ==
    /\ op.name = "get_cost_history"
    /\ Len(op.ret) = 2
    /\ Records[1].total_estimated_cost > 0
    /\ get_session_total(heap, session_costs).total_actual_cost = None

\* C19: no operation changes the price table after construction, and a
\* model name resolves to the same rates before and after every operation.
C19_TableImmutable ==
    [][/\ pricing' = pricing
       /\ \A m \in CallModels :
              get_model_rates(pricing', m) = get_model_rates(pricing, m)]_vars

C19_Witness ==
    /\ op.name = "get_model_rates"
    /\ op.arg = N_gpt52
    /\ op.ret = <<100, 400>>
    /\ Len(session_costs) = 2
    /\ Len(calls) = 2

\* C20 as stated: in every summary the requests of costs_by_model add up to
\* request_count, its tokens to total_tokens and its estimated_cost values
\* (added as floats, in the order of the mapping) to total_estimated_cost.
C20_PartsSumToTotal ==
    op.name = "get_session_total" =>
        LET by == op.ret.costs_by_model
        IN  /\ ISum([k \in 1..Len(by) |-> by[k][2].requests])
                   = op.ret.request_count
            /\ ISum([k \in 1..Len(by) |-> by[k][2].tokens])
                   = op.ret.total_tokens
            /\ FSum([k \in 1..Len(by) |-> by[k][2].estimated_cost])
                   = op.ret.total_estimated_cost

(***************************************************************************)
(* Life cycle of the ledger (Spec).                                        *)
(***************************************************************************)
\* C21: a new instance has an empty ledger; in every state the instance
\* exists, which is all clear_session and calculate_cost ask for, and
\* calculate_cost raises for no model; and the ledger holds exactly the
\* records of the calculate_cost calls made since construction or the last
\* clear_session, in order.
C21_NoTerminalState ==
    /\ op.name = "init" => session_costs = <<>>
    /\ Constructed
    /\ \A m \in CallModels : calculate_cost_error(pricing, m) = ""
    /\ Records = CallRecords

\* two records appended after a clear_session: the first object is the
\* second one ever made, which it can only be when the first was dropped
C21_Witness ==
    /\ op.name = "calculate_cost"
    /\ session_costs = <<2, 1>>
    /\ Len(calls) = 2
    /\ Len(Records) = 2

\* C22: every ledger record has the model name as the caller passed it (not
\* lower-cased, not the table key it matched), and its source is the
\* disclaimer of the table's metadata, or "Demo Estimate" when the table has
\* no metadata disclaimer.
C22_ModelAndSource ==
    /\ Len(Records) = Len(calls)
    /\ \A k \in 1..Len(Records) :
           /\ Records[k].model = calls[k][1]
           /\ Records[k].source =
                  IF DictHas(pricing, "metadata")
                     /\ DictHas(DictGet(pricing, "metadata", <<>>), "disclaimer")
                  THEN DictGet(DictGet(pricing, "metadata", <<>>), "disclaimer", "")
                  ELSE "Demo Estimate"

\* a name in capitals, priced from a table without metadata
C22_Witness ==
    /\ op.name = "calculate_cost"
    /\ Len(Records) = 2
    /\ Records[1].model = N_GPT5Mini
    /\ Records[1].source = "Demo Estimate"
    /\ ~DictHas(pricing, "metadata")

(***************************************************************************)
(* Names inside keys (SpecRates).                                          *)
(***************************************************************************)
\* C23: a name that equals no key but is contained, case-insensitively, in
\* some key gets the rates of the first such key in table order, not the
\* rates of the default model.
C23_NameInsideKey ==
    (/\ op.name = "get_model_rates"
     /\ ExactHits(op.arg) = {}
     /\ KeyContainsName(op.arg) # {})
        => op.ret = StoredRates(First(KeyContainsName(op.arg)))

\* "mini" asked of a table whose only key is "GPT-5-Mini"
C23_Witness ==
    /\ op.name = "get_model_rates"
    /\ op.arg = N_mini
    /\ Len(Models) = 1
    /\ Models[1][1] = N_GPT5Mini
    /\ op.ret = <<8, 32>>
    /\ op.ret # <<DefaultInputRate, DefaultOutputRate>>

(***************************************************************************)
(* Growth of the totals (Spec).                                            *)
(***************************************************************************)
\* C24: a calculate_cost call lowers none of request_count, total_tokens and
\* total_estimated_cost of the summary, and every record's input_cost,
\* output_cost and total_estimated_cost is >= 0.
C24_TotalsNeverDecrease ==
    /\ [][op'.name = "calculate_cost" =>
              LET before == get_session_total(heap, session_costs)
                  after == get_session_total(heap', session_costs')
              IN  /\ after.request_count >= before.request_count
                  /\ after.total_tokens >= before.total_tokens
                  /\ after.total_estimated_cost >= before.total_estimated_cost]_vars
    /\ [](\A k \in 1..Len(Records) :
              /\ Records[k].input_cost >= 0
              /\ Records[k].output_cost >= 0
              /\ Records[k].total_estimated_cost >= 0)

\* the third call of a session, after which the total has grown
C24_Witness ==
    /\ op.name = "calculate_cost"
    /\ Len(Records) = 3
    /\ get_session_total(heap, session_costs).total_estimated_cost
           > FSum(<<Records[1].total_estimated_cost,
                    Records[2].total_estimated_cost>>)
    /\ get_session_total(heap, session_costs).total_tokens = 3500

(***************************************************************************)
(* The chat page of the Streamlit app.  session_state.keys are the keys    *)
(* st.session_state holds; cost_calculator is the ordinal of the           *)
(* CostCalculator made for this UI session (pricing and session_costs are  *)
(* its attributes); last_cost_breakdown is None or a reference to a        *)
(* CostBreakdown.                                                          *)
(***************************************************************************)
\* the pricing file at the calculator's default path: not shipped
PackagedPricing == [found |-> FALSE, doc |-> <<>>]

Message(role, content) == [role |-> role, content |-> content]

\* what the three services hold: session_state, the calculator's table and
\* its ledger
Services(ss, p, sc) == [session_state |-> ss, pricing |-> p, session_costs |-> sc]

\* initialize_services that makes a new calculator on every run
initialize_services_Always(ss, p, sc) ==
    Services([ss EXCEPT !.keys = @ \cup {"cost_calculator"},
                        !.cost_calculator = @ + 1],
             load_pricing(PackagedPricing), <<>>)

\* initialize_services whose new calculator takes over the ledger there was
initialize_services_KeepLedger(ss, p, sc) ==
    IF "cost_calculator" \in ss.keys
    THEN Services(ss, p, sc)
    ELSE Services([ss EXCEPT !.keys = @ \cup {"cost_calculator"},
                             !.cost_calculator = @ + 1],
                  load_pricing(PackagedPricing), sc)

\* app.initialize_services: the calculator is made when session_state has
\* none
initialize_services(ss, p, sc) ==
    IF "cost_calculator" \in ss.keys
    THEN Services(ss, p, sc)
    ELSE Services([ss EXCEPT !.keys = @ \cup {"cost_calculator"},
                             !.cost_calculator = @ + 1],
                  load_pricing(PackagedPricing), <<>>)

\* chat.initialize_chat_state: defaults for the keys that are absent (the
\* calculator is there already, initialize_services ran first)
initialize_chat_state(ss) ==
    [keys |-> ss.keys \cup {"messages", "conversation_history",
                            "last_cost_breakdown"},
     messages |-> IF "messages" \in ss.keys THEN ss.messages ELSE <<>>,
     conversation_history |->
         IF "conversation_history" \in ss.keys
         THEN ss.conversation_history ELSE <<>>,
     last_cost_breakdown |->
         IF "last_cost_breakdown" \in ss.keys
         THEN ss.last_cost_breakdown ELSE None,
     cost_calculator |-> ss.cost_calculator]

\* the start of a run of main() on the chat page: initialize_services, then
\* initialize_chat_state in render_chat_interface
StartRun(ss, p, sc) ==
    LET s1 == initialize_services(ss, p, sc)
    IN  [s1 EXCEPT !.session_state = initialize_chat_state(@)]

\* UserShown that files the prompt in conversation_history as well
UserShown_AlsoHistory(ss, prompt) ==
    [ss EXCEPT !.messages = Append(@, Message("user", prompt)),
               !.conversation_history = Append(@, Message("user", prompt))]

\* the user message is added to the chat, before the completion call
UserShown(ss, prompt) ==
    [ss EXCEPT !.messages = Append(@, Message("user", prompt))]

\* the completion call returned: prompt and reply go to
\* conversation_history, the reply to messages
Answered(ss, prompt, content) ==
    [ss EXCEPT !.conversation_history =
                   @ \o <<Message("user", prompt),
                          Message("assistant", content)>>,
               !.messages = Append(@, Message("assistant", content))]

\* One run of main() in which st.chat_input hands over a prompt:
\* render_chat_interface.  The completion call returns a response or raises;
\* everything after the user message is inside the try block, so an
\* exception of calculate_cost ends the run the same way.
RenderChatInterface(prompt, completion) ==
    /\ Constructed
    /\ Len(session_state.messages) + (IF completion.ok THEN 2 ELSE 1)
           <= MaxMessages
    /\ completion.ok => Len(session_costs) < MaxLedger
    /\ LET s0 == StartRun(session_state, pricing, session_costs)
           shown == UserShown(s0.session_state, prompt)
           answered == Answered(shown, prompt, completion.content)
           r == calculate_cost(s0.pricing, heap, s0.session_costs,
                               completion.model, completion.input_tokens,
                               completion.output_tokens)
       IN  /\ pricing' = s0.pricing
           /\ IF ~completion.ok
              THEN /\ session_state' = shown
                   /\ session_costs' = s0.session_costs
                   /\ returned' = None
                   /\ calls' = calls
              ELSE IF calculate_cost_error(s0.pricing, completion.model) # ""
              THEN /\ session_state' = answered
                   /\ session_costs' = s0.session_costs
                   /\ returned' = None
                   /\ calls' = calls
              ELSE /\ session_state' =
                          [answered EXCEPT !.last_cost_breakdown = Some(r.ret)]
                   /\ session_costs' = r.session_costs
                   /\ returned' = Some(r.ret)
                   /\ calls' = Append(calls, <<completion.model,
                                               completion.input_tokens,
                                               completion.output_tokens>>)
           /\ heap' = Collect(IF returned' = None THEN heap ELSE r.heap,
                              session_costs',
                              returned' \o session_state'.last_cost_breakdown)
           /\ op' = [name |-> "chat", arg |-> <<prompt, completion.ok>>,
                     ret |-> returned']

\* ClearChatHistory that empties the calculator's ledger as well
ClearChatHistory_AndCosts ==
    /\ Constructed
    /\ session_state' = [session_state EXCEPT
                             !.messages = <<>>,
                             !.conversation_history = <<>>,
                             !.last_cost_breakdown = None]
    /\ session_costs' = <<>>
    /\ returned' = None
    /\ heap' = EmptyHeap
    /\ calls' = <<>>
    /\ op' = [name |-> "clear_chat", arg |-> None, ret |-> None]
    /\ UNCHANGED pricing

\* A run in which "Clear Chat History" is pressed (render_chat_sidebar), and
\* the rerun it asks for.
ClearChatHistory ==
    /\ Constructed
    /\ LET s0 == StartRun(session_state, pricing, session_costs)
           cleared == [s0.session_state EXCEPT
                          !.messages = <<>>,
                          !.conversation_history = <<>>,
                          !.last_cost_breakdown = None]
           s1 == StartRun(cleared, s0.pricing, s0.session_costs)
       IN  /\ session_state' = s1.session_state
           /\ pricing' = s1.pricing
           /\ session_costs' = s1.session_costs
           /\ returned' = s1.session_state.last_cost_breakdown
    /\ heap' = Collect(heap, session_costs', returned')
    /\ op' = [name |-> "clear_chat", arg |-> None, ret |-> returned']
    /\ UNCHANGED calls

\* A run in which "Reset Costs" is pressed (render_cost_sidebar), and the
\* rerun it asks for.
ResetCosts ==
    /\ Constructed
    /\ LET s0 == StartRun(session_state, pricing, session_costs)
           s1 == StartRun(s0.session_state, s0.pricing,
                          clear_session(s0.session_costs))
       IN  /\ session_state' = s1.session_state
           /\ pricing' = s1.pricing
           /\ session_costs' = s1.session_costs
           /\ returned' = s1.session_state.last_cost_breakdown
    /\ heap' = Collect(heap, session_costs', returned')
    /\ calls' = <<>>
    /\ op' = [name |-> "reset_costs", arg |-> None, ret |-> returned']

\* A run in which "Reset All Session Data" is pressed (render_settings_page):
\* every key of session_state is deleted, and the rerun starts from nothing.
ResetAllSessionData ==
    /\ Constructed
    /\ session_state.cost_calculator < MaxCalculators
    /\ LET s0 == StartRun(session_state, pricing, session_costs)
           s1 == StartRun([s0.session_state EXCEPT !.keys = {}],
                          s0.pricing, s0.session_costs)
       IN  /\ session_state' = s1.session_state
           /\ pricing' = s1.pricing
           /\ session_costs' = s1.session_costs
           /\ returned' = s1.session_state.last_cost_breakdown
    /\ heap' = Collect(heap, session_costs', returned')
    /\ calls' = <<>>
    /\ op' = [name |-> "reset_all", arg |-> None, ret |-> returned']

\* A run of main() on the chat page with no prompt and no button pressed.
Rerun ==
    /\ Constructed
    /\ LET s0 == StartRun(session_state, pricing, session_costs)
       IN  /\ session_state' = s0.session_state
           /\ pricing' = s0.pricing
           /\ session_costs' = s0.session_costs
           /\ returned' = s0.session_state.last_cost_breakdown
    /\ heap' = Collect(heap, session_costs', returned')
    /\ op' = [name |-> "rerun", arg |-> None, ret |-> returned']
    /\ UNCHANGED calls

\* prompts typed into the chat input
Prompts == {"q1", "q2"}

\* outcomes of the completion call: it raises, or returns a response with
\* its usage
Completions ==
    {[ok |-> FALSE, content |-> "", model |-> <<>>,
      input_tokens |-> 0, output_tokens |-> 0],
     [ok |-> TRUE, content |-> "a1", model |-> N_gpt5mini,
      input_tokens |-> 1000, output_tokens |-> 500]}

\* the state after the first run of main() of a UI session
InitSession ==
    LET s0 == StartRun(NoSessionState, <<>>, <<>>)
    IN  /\ session_state = s0.session_state
        /\ pricing = s0.pricing
        /\ session_costs = s0.session_costs
        /\ heap = EmptyHeap
        /\ returned = None
        /\ op = [name |-> "init", arg |-> <<FALSE>>, ret |-> None]
        /\ calls = <<>>

\* chat submissions, Clear Chat History and reruns
NextChat ==
    \/ \E q \in Prompts, c \in Completions : RenderChatInterface(q, c)
    \/ ClearChatHistory
    \/ Rerun

SpecChat == InitSession /\ [][NextChat]_vars

\* the chat page with all its buttons
NextSession ==
    \/ \E q \in Prompts, c \in Completions : RenderChatInterface(q, c)
    \/ ClearChatHistory
    \/ ResetCosts
    \/ ResetAllSessionData
    \/ Rerun

SpecSession == InitSession /\ [][NextSession]_vars

\* C25: a chat submission whose completion call returns adds exactly one
\* record to the ledger, one whose completion call raises adds none, and
\* Clear Chat History and a rerun leave the ledger as it is; so without
\* Reset Costs the ledger is as long as the number of completions that
\* succeeded.
C25_OneRecordPerCompletion ==
    [][/\ (op'.name = "chat" /\ op'.arg[2]) =>
              /\ Len(session_costs') = Len(session_costs) + 1
              /\ SubSeq(session_costs', 1, Len(session_costs)) = session_costs
       /\ (op'.name = "chat" /\ ~op'.arg[2]) => session_costs' = session_costs
       /\ op'.name \in {"clear_chat", "rerun"} =>
              session_costs' = session_costs]_vars

\* a failed submission after three completions, a Clear Chat History
\* between them
C25_Witness ==
    /\ op.name = "chat"
    /\ ~op.arg[2]
    /\ Len(session_costs) = 3
    /\ Len(session_state.messages) <= 3

(***************************************************************************)
(* The chat page with its buttons (SpecSession).                           *)
(***************************************************************************)
\* C26 as stated: whenever last_cost_breakdown is not None, the record it
\* refers to is in the calculator's ledger.
C26_LastBreakdownInLedger ==
    session_state.last_cost_breakdown # None =>
        session_state.last_cost_breakdown[1] \in Refs(session_costs)

\* C27: Clear Chat History empties messages and conversation_history, sets
\* last_cost_breakdown to None and leaves the ledger and its records as they
\* were; Reset Costs empties the ledger and leaves messages and
\* conversation_history as they were.
C27_ButtonFrames ==
    [][/\ op'.name = "clear_chat" =>
              /\ session_state'.messages = <<>>
              /\ session_state'.conversation_history = <<>>
              /\ session_state'.last_cost_breakdown = None
              /\ session_costs' = session_costs
              /\ Ledger(heap', session_costs') = Ledger(heap, session_costs)
       /\ op'.name = "reset_costs" =>
              /\ session_costs' = <<>>
              /\ session_state'.messages = session_state.messages
              /\ session_state'.conversation_history =
                     session_state.conversation_history]_vars

\* Reset Costs pressed on a chat with messages and a ledger entry behind it
C27_Witness ==
    /\ op.name = "reset_costs"
    /\ session_costs = <<>>
    /\ Len(session_state.messages) = 4
    /\ Len(session_state.conversation_history) = 4
    /\ session_state.last_cost_breakdown # None

\* the roles of a list of messages
Roles(ms) == [k \in 1..Len(ms) |-> ms[k].role]

\* C28: conversation_history has even length and is made of user/assistant
\* pairs, a prompt and then its reply; a failed submission leaves it as it
\* was and leaves the prompt in messages, so messages is at least as long.
C28_HistoryInPairs ==
    /\ [](LET h == session_state.conversation_history
          IN  /\ Len(h) % 2 = 0
              /\ \A k \in 1..Len(h) :
                     h[k].role = IF k % 2 = 1 THEN "user" ELSE "assistant"
              /\ \A k \in 1..Len(h) : k % 2 = 1 => h[k].content \in Prompts
              /\ Len(session_state.messages) >= Len(h))
    /\ [][(op'.name = "chat" /\ ~op'.arg[2]) =>
              /\ session_state'.conversation_history =
                     session_state.conversation_history
              /\ session_state'.messages =
                     Append(session_state.messages,
                            Message("user", op'.arg[1]))]_vars

\* a failed submission after an answered one
C28_Witness ==
    /\ op.name = "chat"
    /\ ~op.arg[2]
    /\ Len(session_state.conversation_history) = 2
    /\ Roles(session_state.messages) = <<"user", "assistant", "user">>

\* C29: the calculator of a UI session changes only when Reset All Session
\* Data is pressed; every other run, a bare rerun included, works on the
\* same calculator, and a rerun leaves its ledger as it was.  After Reset
\* All Session Data the run makes the next calculator, with an empty ledger.
C29_CalculatorPerSession ==
    [][/\ session_state'.cost_calculator # session_state.cost_calculator =>
              op'.name = "reset_all"
       /\ op'.name = "rerun" =>
              (session_costs' = session_costs /\ pricing' = pricing)
       /\ op'.name = "reset_all" =>
              /\ session_state'.cost_calculator =
                     session_state.cost_calculator + 1
              /\ session_costs' = <<>>
              /\ session_state'.messages = <<>>]_vars

\* a record in the ledger of the second calculator of the session
C29_Witness ==
    /\ op.name = "chat"
    /\ session_state.cost_calculator = 2
    /\ Len(session_costs) = 1
    /\ Len(session_state.messages) = 2

====
